---- MODULE Spec2Model ----
(***************************************************************************)
(* Model of projector_installer: the log management functions of           *)
(* log_utils.py and the session functions of actions.py (get_access_urls,  *)
(* dump_logs, do_run_config).                                              *)
(*                                                                         *)
(* A log file is a sequence of one-character strings (its bytes) or ABSENT *)
(* when no file exists at the path.  The console (sys.stdout) and the      *)
(* projector log are sequences of strings.  Sizes are scaled down: the     *)
(* ceiling MAX_LOG_FILE_SIZE is 4 bytes instead of 1024 * 1024 and the     *)
(* session mark is the two bytes "-" "S"; like the real mark (which starts *)
(* with "-" and ends with ".") it has no proper border, so two occurrences *)
(* never overlap.                                                          *)
(***************************************************************************)
EXTENDS Integers, Sequences, FiniteSets, TLC

VARIABLES
    log_file,       \* content of the file at get_path_to_log(config_name), or ABSENT
    handles,        \* number of open TextIO handles on log_file (init_log's results)
    console,        \* what the operation in progress / last finished wrote to sys.stdout
    exc,            \* exception that escaped the last operation, "none" if it returned
    last,           \* the last operation, its arguments and the state it started from
    pc,             \* do_run_config: position of the control thread
    session,        \* do_run_config: arguments and locals of the invocation
    child,          \* the Popen'ed launch script: its status, pipes and pending output
    handler,        \* TRUE once signal.signal(SIGINT, signal_handler) has run
    projector_log,  \* lines of the file at get_path_to_projector_log()
    runs,           \* completed do_run_config invocations, with what each child wrote
    url_in,         \* get_access_urls: the inputs of the call under test
    url_out         \* get_access_urls: its result

vars == <<log_file, handles, console, exc, last, pc, session, child, handler,
          projector_log, runs, url_in, url_out>>

log_vars == <<log_file, handles>>
run_vars == <<pc, session, child, handler, projector_log, runs>>
url_vars == <<url_in, url_out>>

-----------------------------------------------------------------------------
(* Bounds of the model *)

MaxInitLen == 6     \* longest log file present before the first operation
MaxHandles == 2     \* handles init_log may have open at once
MaxAddrs == 3       \* longest list get_local_addresses returns
MaxLines == 2       \* most lines the child writes to one stream
MaxRuns == 1        \* do_run_config invocations
MaxInterrupts == 1  \* SIGINTs delivered during one session
PIPE_CAPACITY == 1  \* lines an OS pipe holds before a write blocks

-----------------------------------------------------------------------------
(* log_utils.py *)

\* no file at the path: a value that is no sequence of bytes
ABSENT == <<"<no file>">>

MAX_LOG_FILE_SIZE == 4

START_SESSION_MARK == <<"-", "S">>

Byte == {"-", "S", "\n"}

RetCode == {0 - 2, 0, 1, 137}

RECURSIVE SeqsUpTo(_, _)
SeqsUpTo(S, n) ==
    IF n = 0 THEN {<<>>}
    ELSE LET shorter == SeqsUpTo(S, n - 1)
         IN  shorter \cup {Append(s, x) : s \in {t \in shorter : Len(t) = n - 1}, x \in S}

\* str slicing content[pos:], pos counted from 0
SliceFrom(content, pos) == SubSeq(content, pos + 1, Len(content))

\* the positions (from 0) at which sub occurs in content
Occurrences(content, sub) ==
    {i \in 0..(Len(content) - Len(sub)) : SubSeq(content, i + 1, i + Len(sub)) = sub}

\* str.index in place of str.rindex: the lowest position
rindex_first(content, sub) ==
    LET occ == Occurrences(content, sub)
    IN  IF occ = {} THEN 0 - 1 ELSE CHOOSE i \in occ : \A j \in occ : i <= j

\* str.rindex: the highest position of sub in content; -1 stands for ValueError
rindex(content, sub) ==
    LET occ == Occurrences(content, sub)
    IN  IF occ = {} THEN 0 - 1 ELSE CHOOSE i \in occ : \A j \in occ : j <= i

\* open(log_name, 'w+'): the file is truncated to zero length when it is opened
open_w_plus(content) == <<>>

\* log.seek(pos); log.read(): the rest of the file, empty when pos is at or past the end
seek_read(content, pos) ==
    IF pos >= Len(content) THEN <<>> ELSE SliceFrom(content, pos)

\* restrict_log_size with "size >= MAX_LOG_FILE_SIZE" for its condition
restricted_at_ceiling(content) ==
    IF Len(content) >= MAX_LOG_FILE_SIZE THEN <<>> ELSE content

\* the file restrict_log_size leaves behind, for a file that exists
restricted(content) ==
    LET size == Len(content)
    IN  IF size > MAX_LOG_FILE_SIZE
        THEN LET opened == open_w_plus(content)
                 kept   == seek_read(opened, size - MAX_LOG_FILE_SIZE)
             IN  kept           \* seek(0); truncate(); write(content); flush()
        ELSE content

\* an exit classification that takes only 0 for expected
is_unexpected_exit_nonzero(ret_code) == ret_code # 0

is_unexpected_exit(ret_code) == ret_code \notin {0, 0 - 2}

\* the line init_log prints: the mark, then the config name and the time, then "\n"
session_line == START_SESSION_MARK \o <<"\n">>

Done(op, ret_code) ==
    [op |-> op, ret_code |-> ret_code, pre_log |-> log_file, pre_handles |-> handles,
     pre_console |-> <<>>, pre_plog |-> projector_log, pre_handler |-> handler,
     stdout_lines |-> <<>>, stderr_lines |-> <<>>]

restrict_log_size ==
    /\ pc = "idle"
    /\ last' = Done("restrict_log_size", 0)
    /\ console' = <<>>
    /\ IF log_file = ABSENT
       THEN /\ exc' = "FileNotFoundError"      \* getsize(log_name)
            /\ UNCHANGED log_file
       ELSE /\ exc' = "none"
            /\ log_file' = restricted(log_file)
    /\ UNCHANGED <<handles, run_vars, url_vars>>

init_log ==
    /\ pc = "idle"
    /\ handles < MaxHandles
    /\ last' = Done("init_log", 0)
    /\ console' = <<>>
    /\ IF log_file = ABSENT
       THEN /\ exc' = "FileNotFoundError"      \* raised by restrict_log_size
            /\ UNCHANGED <<log_file, handles>>
       ELSE /\ exc' = "none"
            /\ log_file' = restricted(log_file) \o session_line
            /\ handles' = handles + 1
    /\ UNCHANGED <<run_vars, url_vars>>

\* the effect of dump_last_log_session on an open handle: <<exception, written>>
dump_effect(content) ==
    LET pos == rindex(content, START_SESSION_MARK)
    IN  IF pos < 0 THEN <<"ValueError", <<>>>> ELSE <<"none", SliceFrom(content, pos)>>

dump_last_log_session ==
    /\ pc = "idle"
    /\ handles > 0
    /\ log_file # ABSENT
    /\ last' = Done("dump_last_log_session", 0)
    /\ exc' = dump_effect(log_file)[1]
    /\ console' = dump_effect(log_file)[2]
    /\ UNCHANGED <<log_vars, run_vars, url_vars>>

shutdown_log ==
    /\ pc = "idle"
    /\ handles > 0
    /\ log_file # ABSENT
    /\ \E ret_code \in RetCode :
        /\ last' = Done("shutdown_log", ret_code)
        /\ IF is_unexpected_exit(ret_code)
           THEN /\ exc' = dump_effect(log_file)[1]
                /\ console' = dump_effect(log_file)[2]
                /\ handles' = IF dump_effect(log_file)[1] = "none"
                              THEN handles - 1      \* log_file.close()
                              ELSE handles          \* the exception skips close()
           ELSE /\ exc' = "none"
                /\ console' = <<>>
                /\ handles' = handles - 1
    /\ UNCHANGED <<log_file, run_vars, url_vars>>

-----------------------------------------------------------------------------
(* actions.py: get_access_urls *)

NONE == "<None>"                \* Python's None, for an optional str

Address == {"127.0.0.1", "10.0.0.5", "192.168.0.7"}

Port == {9999, 8443}

Token == {NONE, "", "abc", "xyz"}

\* bool(s) of an optional str
truthy(s) == s \notin {NONE, ""}

\* 'localhost' in the place of '127.0.0.1' instead of in front of the list
with_localhost_replacing(addresses) ==
    [i \in 1..Len(addresses) |->
        IF addresses[i] = "127.0.0.1" THEN "localhost" ELSE addresses[i]]

\* 'localhost' put behind the resolved addresses instead of in front
with_localhost_appended(addresses) ==
    IF \E i \in 1..Len(addresses) : addresses[i] = "127.0.0.1"
    THEN addresses \o <<"localhost">>
    ELSE addresses

\* ['localhost'] + addresses when '127.0.0.1' in addresses
with_localhost(addresses) ==
    IF \E i \in 1..Len(addresses) : addresses[i] = "127.0.0.1"
    THEN <<"localhost">> \o addresses
    ELSE addresses

base_url(schema, address, port) ==
    schema \o "://" \o address \o ":" \o ToString(port) \o "/index.html"

\* list(map(lambda x: x + "?token=" + token, urls))
with_token(urls, token) == [i \in 1..Len(urls) |-> urls[i] \o "?token=" \o token]

\* a get_access_urls that puts the read-only password's URLs in front
get_access_urls_ro_first(secure, addresses, port, password, ro_password) ==
    LET schema == IF secure THEN "https" ELSE "http"
        addrs  == with_localhost(addresses)
        urls   == [i \in 1..Len(addrs) |-> base_url(schema, addrs[i], port)]
    IN  IF truthy(password)
        THEN IF password # ro_password
             THEN IF ro_password = NONE
                  THEN [exc |-> "TypeError", urls |-> <<>>]
                  ELSE [exc |-> "none",
                        urls |-> with_token(urls, ro_password) \o with_token(urls, password)]
             ELSE [exc |-> "none", urls |-> with_token(urls, password)]
        ELSE [exc |-> "none", urls |-> urls]

\* the result of get_access_urls: the exception it raises ("none" if it returns)
\* and the list it returns
get_access_urls(secure, addresses, port, password, ro_password) ==
    LET schema == IF secure THEN "https" ELSE "http"
        addrs  == with_localhost(addresses)
        urls   == [i \in 1..Len(addrs) |-> base_url(schema, addrs[i], port)]
    IN  IF truthy(password)
        THEN IF password # ro_password
             THEN IF ro_password = NONE
                  THEN [exc |-> "TypeError", urls |-> <<>>]    \* str + None
                  ELSE [exc |-> "none",
                        urls |-> with_token(urls, password) \o with_token(urls, ro_password)]
             ELSE [exc |-> "none", urls |-> with_token(urls, password)]
        ELSE [exc |-> "none", urls |-> urls]

UrlInput ==
    [secure : BOOLEAN, addresses : SeqsUpTo(Address, MaxAddrs), port : Port,
     password : Token \ {"xyz"}, ro_password : Token]

NoUrlInput ==
    [secure |-> FALSE, addresses |-> <<>>, port |-> 9999,
     password |-> NONE, ro_password |-> NONE]

NoUrlOutput == [exc |-> "none", urls |-> <<>>, called |-> FALSE]

call_get_access_urls ==
    /\ ~url_out.called
    /\ url_in # NoUrlInput
    /\ LET r == get_access_urls(url_in.secure, url_in.addresses, url_in.port,
                                url_in.password, url_in.ro_password)
       IN  url_out' = [exc |-> r.exc, urls |-> r.urls, called |-> TRUE]
    /\ UNCHANGED <<log_vars, console, exc, last, run_vars, url_in>>

-----------------------------------------------------------------------------
(* actions.py: dump_logs and do_run_config *)

\* what the launch script writes to one of its pipes: n distinct lines
ChildLines(tag, n) == [i \in 1..n |-> tag \o ToString(i) \o "\n"]

NoChild ==
    [status |-> "none", out |-> <<>>, err |-> <<>>, nout |-> 0, nerr |-> 0, code |-> 0]

NoSession ==
    [run_browser |-> FALSE, wsl |-> FALSE, java_ok |-> TRUE, secure |-> FALSE,
     addresses |-> <<>>, password |-> NONE, ro_password |-> NONE,
     access_urls |-> <<>>, browser |-> NONE, ret_code |-> 0,
     sys_exit |-> 0, interrupts |-> 0]

\* "\n".join(urls)
RECURSIVE join(_)
join(urls) ==
    IF Len(urls) = 0 THEN ""
    ELSE IF Len(urls) = 1 THEN urls[1]
    ELSE urls[1] \o "\n" \o join(Tail(urls))

\* the run configurations select_run_config may return, with what the external
\* checks say of each: is_secure, check_config, is_compatible_java
RunConfig ==
    {[secure |-> FALSE, password |-> NONE, ro_password |-> NONE,
      config_ok |-> TRUE, java_ok |-> TRUE],
     [secure |-> TRUE, password |-> "abc", ro_password |-> "xyz",
      config_ok |-> FALSE, java_ok |-> FALSE],
     [secure |-> TRUE, password |-> "abc", ro_password |-> NONE,
      config_ok |-> TRUE, java_ok |-> TRUE]}

\* the run_browser argument, is_wsl() and get_local_addresses() of an invocation
RunEnv ==
    {[run_browser |-> FALSE, wsl |-> FALSE, addresses |-> <<"127.0.0.1", "10.0.0.5">>],
     [run_browser |-> TRUE, wsl |-> FALSE, addresses |-> <<>>],
     [run_browser |-> TRUE, wsl |-> TRUE, addresses |-> <<"127.0.0.1", "10.0.0.5">>],
     [run_browser |-> TRUE, wsl |-> TRUE, addresses |-> <<>>]}

\* a do_run_config that installs the SIGINT handler before it checks the launch script
do_run_config_handler_first ==
    /\ pc = "idle"
    /\ runs < MaxRuns
    /\ last' = Done("do_run_config", 0)
    /\ exc' = "none"
    /\ \E script_is_file \in BOOLEAN, run_config \in RunConfig, env \in RunEnv :
        IF ~script_is_file
        THEN /\ console' = <<"Configuration name", "Cannot find file", "To fix, try">>
             /\ pc' = "exited"                      \* sys.exit(1)
             /\ session' = [NoSession EXCEPT !.sys_exit = 1]
             /\ handler' = TRUE
             /\ UNCHANGED child
        ELSE /\ console' = <<"Configuration name">>
                            \o (IF run_config.config_ok THEN <<>>
                                ELSE <<"WARNING: run config">>)
             /\ handler' = TRUE
             /\ session' = [NoSession EXCEPT !.run_browser = env.run_browser,
                                !.wsl = env.wsl, !.addresses = env.addresses,
                                !.java_ok = run_config.java_ok,
                                !.secure = run_config.secure,
                                !.password = run_config.password,
                                !.ro_password = run_config.ro_password]
             /\ \E n \in 0..MaxLines, m \in 0..MaxLines :
                    child' = [NoChild EXCEPT !.status = "running",
                                  !.out = ChildLines("out", n),
                                  !.err = ChildLines("err", m)]
             /\ pc' = "spawned"
    /\ UNCHANGED <<log_vars, projector_log, runs, url_vars>>

\* do_run_config up to subprocess.Popen: the launch script is checked, the SIGINT
\* handler is installed and the child is started with both streams piped
do_run_config ==
    /\ pc = "idle"
    /\ runs < MaxRuns
    /\ last' = Done("do_run_config", 0)
    /\ exc' = "none"
    /\ \E script_is_file \in BOOLEAN, run_config \in RunConfig, env \in RunEnv :
        IF ~script_is_file
        THEN /\ console' = <<"Configuration name", "Cannot find file", "To fix, try">>
             /\ pc' = "exited"                      \* sys.exit(1)
             /\ session' = [NoSession EXCEPT !.sys_exit = 1]
             /\ UNCHANGED <<child, handler>>
        ELSE /\ console' = <<"Configuration name">>
                            \o (IF run_config.config_ok THEN <<>>
                                ELSE <<"WARNING: run config">>)
             /\ handler' = TRUE
             /\ session' = [NoSession EXCEPT !.run_browser = env.run_browser,
                                !.wsl = env.wsl, !.addresses = env.addresses,
                                !.java_ok = run_config.java_ok,
                                !.secure = run_config.secure,
                                !.password = run_config.password,
                                !.ro_password = run_config.ro_password]
             /\ \E n \in 0..MaxLines, m \in 0..MaxLines :
                    child' = [NoChild EXCEPT !.status = "running",
                                  !.out = ChildLines("out", n),
                                  !.err = ChildLines("err", m)]
             /\ pc' = "spawned"
    /\ UNCHANGED <<log_vars, projector_log, runs, url_vars>>

\* the prints of do_run_config between Popen and wait, for the URLs returned
session_prints(s, urls) ==
    <<"To access IDE, open in browser \n" \o join(urls) \o "\n">>
    \o (IF s.secure
        THEN <<"If browser warns on unsecure connection", "ca.crt", "Refer to: ",
               "README.md#Secure-connection">>
        ELSE <<>>)
    \o (IF s.java_ok THEN <<>> ELSE <<"Bundled JVM is incompatible", "may be nonfunctional">>)
    \o <<"Exit IDE or press Ctrl+C to stop Projector.">>
    \o (IF s.run_browser /\ s.wsl THEN <<"It seems that you are using WSL", "WSL is still experimental">> ELSE <<>>)

\* do_run_config from get_access_urls to the browser start
print_access_urls ==
    /\ pc = "spawned"
    /\ LET r == get_access_urls(session.secure, session.addresses, 9999,
                                session.password, session.ro_password)
       IN  IF r.exc # "none"
           THEN /\ exc' = r.exc
                /\ pc' = "crashed"
                /\ UNCHANGED <<console, session>>
           ELSE /\ console' = console \o session_prints(session, r.urls)
                /\ IF session.run_browser /\ session.wsl
                   THEN IF Len(r.urls) = 0
                        THEN /\ exc' = "IndexError"         \* access_urls[0]
                             /\ pc' = "crashed"
                             /\ session' = [session EXCEPT !.access_urls = r.urls]
                        ELSE /\ exc' = "none"
                             /\ pc' = "waiting"
                             /\ session' = [session EXCEPT !.access_urls = r.urls,
                                                           !.browser = r.urls[1]]
                   ELSE /\ exc' = "none"
                        /\ pc' = "waiting"
                        /\ session' = [session EXCEPT !.access_urls = r.urls]
    /\ UNCHANGED <<log_vars, last, child, handler, projector_log, runs, url_vars>>

\* the child writes its next stdout line; it blocks while the pipe is full,
\* and nothing reads the pipe before the child has exited
child_write_stdout ==
    /\ child.status = "running"
    /\ child.nout < Len(child.out)
    /\ child.nout < PIPE_CAPACITY
    /\ child' = [child EXCEPT !.nout = @ + 1]
    /\ UNCHANGED <<log_vars, console, exc, last, pc, session, handler,
                   projector_log, runs, url_vars>>

child_write_stderr ==
    /\ child.status = "running"
    /\ child.nerr < Len(child.err)
    /\ child.nerr < PIPE_CAPACITY
    /\ child' = [child EXCEPT !.nerr = @ + 1]
    /\ UNCHANGED <<log_vars, console, exc, last, pc, session, handler,
                   projector_log, runs, url_vars>>

\* the child exits once it has written all of its output
child_exit ==
    /\ child.status = "running"
    /\ child.nout = Len(child.out)
    /\ child.nerr = Len(child.err)
    /\ \E code \in RetCode : child' = [child EXCEPT !.status = "exited", !.code = code]
    /\ UNCHANGED <<log_vars, console, exc, last, pc, session, handler,
                   projector_log, runs, url_vars>>

\* a signal_handler that also terminates the child (projector_process.terminate())
signal_handler_terminating ==
    /\ handler
    /\ pc \in {"spawned", "waiting", "waited"}
    /\ session.interrupts < MaxInterrupts
    /\ console' = Append(console, "\nCtrl-C is pressed, exiting...")
    /\ session' = [session EXCEPT !.interrupts = @ + 1]
    /\ child' = IF child.status = "running"
                THEN [child EXCEPT !.status = "exited", !.code = 0 - 15]
                ELSE child
    /\ UNCHANGED <<log_vars, exc, last, pc, handler, projector_log, runs, url_vars>>

\* SIGINT while the session runs: signal_handler prints and returns
signal_handler ==
    /\ handler
    /\ pc \in {"spawned", "waiting", "waited"}
    /\ session.interrupts < MaxInterrupts
    /\ console' = Append(console, "\nCtrl-C is pressed, exiting...")
    /\ session' = [session EXCEPT !.interrupts = @ + 1]
    /\ UNCHANGED <<log_vars, exc, last, pc, child, handler, projector_log, runs, url_vars>>

\* ret_code = projector_process.wait()
wait ==
    /\ pc = "waiting"
    /\ child.status = "exited"
    /\ session' = [session EXCEPT !.ret_code = child.code]
    /\ pc' = "waited"
    /\ UNCHANGED <<log_vars, console, exc, last, child, handler, projector_log, runs,
                   url_vars>>

\* readlines() of a pipe of the terminated process: every line written to it
readlines(lines, written) == SubSeq(lines, 1, written)

\* a dump_logs that writes the log inside the "unexpected exit" condition
logged_lines_if_unexpected(ret_code, stdout_lines, stderr_lines) ==
    IF ret_code \notin {0, 0 - 2} THEN stdout_lines \o stderr_lines ELSE <<>>

\* what dump_logs appends to the log file
logged_lines(ret_code, stdout_lines, stderr_lines) == stdout_lines \o stderr_lines

\* what dump_logs writes to sys.stdout
echoed_lines(ret_code, stdout_lines, stderr_lines) ==
    IF ret_code \notin {0, 0 - 2} THEN stdout_lines \o stderr_lines ELSE <<>>

\* a do_run_config that ends with sys.exit(ret_code) on an unexpected exit
dump_logs_exit_with_code ==
    /\ pc = "waited"
    /\ LET stdout_lines == readlines(child.out, child.nout)
           stderr_lines == readlines(child.err, child.nerr)
       IN  /\ projector_log' = projector_log
                               \o logged_lines(session.ret_code, stdout_lines, stderr_lines)
           /\ console' = console
                         \o echoed_lines(session.ret_code, stdout_lines, stderr_lines)
           /\ last' = [Done("dump_logs", session.ret_code)
                          EXCEPT !.pre_console = console,
                                 !.stdout_lines = stdout_lines,
                                 !.stderr_lines = stderr_lines]
    /\ pc' = IF session.ret_code \notin {0, 0 - 2} THEN "exited" ELSE "idle"
    /\ session' = IF session.ret_code \notin {0, 0 - 2}
                  THEN [NoSession EXCEPT !.sys_exit = session.ret_code]
                  ELSE NoSession
    /\ child' = NoChild
    /\ runs' = runs + 1
    /\ UNCHANGED <<log_vars, exc, handler, url_vars>>

dump_logs ==
    /\ pc = "waited"
    /\ LET stdout_lines == readlines(child.out, child.nout)
           stderr_lines == readlines(child.err, child.nerr)
       IN  /\ projector_log' = projector_log
                               \o logged_lines(session.ret_code, stdout_lines, stderr_lines)
           /\ console' = console
                         \o echoed_lines(session.ret_code, stdout_lines, stderr_lines)
           /\ last' = [Done("dump_logs", session.ret_code)
                          EXCEPT !.pre_console = console,
                                 !.stdout_lines = stdout_lines,
                                 !.stderr_lines = stderr_lines]
    /\ pc' = "idle"
    /\ session' = NoSession                 \* do_run_config returns: its locals,
    /\ child' = NoChild                     \* the Popen object among them, are gone
    /\ runs' = runs + 1
    /\ UNCHANGED <<log_vars, exc, handler, url_vars>>

-----------------------------------------------------------------------------
(* Specifications *)

NoLast ==
    [op |-> "none", ret_code |-> 0, pre_log |-> ABSENT, pre_handles |-> 0,
     pre_console |-> <<>>, pre_plog |-> <<>>, pre_handler |-> FALSE,
     stdout_lines |-> <<>>, stderr_lines |-> <<>>]

InitRest ==
    /\ handles = 0
    /\ console = <<>>
    /\ exc = "none"
    /\ last = NoLast
    /\ pc = "idle"
    /\ session = NoSession
    /\ child = NoChild
    /\ handler = FALSE
    /\ projector_log = <<>>
    /\ runs = 0
    /\ url_out = NoUrlOutput

\* the whole program, started with no log file or an empty one
Init ==
    /\ log_file \in {ABSENT, <<>>}
    /\ url_in = NoUrlInput
    /\ InitRest

Next ==
    \/ restrict_log_size
    \/ init_log
    \/ dump_last_log_session
    \/ shutdown_log
    \/ do_run_config
    \/ print_access_urls
    \/ child_write_stdout
    \/ child_write_stderr
    \/ child_exit
    \/ signal_handler
    \/ wait
    \/ dump_logs

Spec == Init /\ [][Next]_vars

\* log_utils.py alone, on every log file of up to MaxInitLen bytes
InitLog ==
    /\ log_file \in {ABSENT} \cup SeqsUpTo(Byte, MaxInitLen)
    /\ url_in = NoUrlInput
    /\ InitRest

NextLog ==
    \/ restrict_log_size
    \/ init_log
    \/ dump_last_log_session
    \/ shutdown_log

SpecLog == InitLog /\ [][NextLog]_vars

\* get_access_urls alone, on every input of UrlInput
InitUrls ==
    /\ log_file = ABSENT
    /\ url_in \in UrlInput
    /\ InitRest

NextUrls == call_get_access_urls

SpecUrls == InitUrls /\ [][NextUrls]_vars

-----------------------------------------------------------------------------
(* Properties *)

MarkCount(content) ==
    IF content = ABSENT THEN 0 ELSE Cardinality(Occurrences(content, START_SESSION_MARK))

Expected(ret_code) == ret_code = 0 \/ ret_code = 0 - 2

\* C1: after restrict_log_size on a log file larger than the ceiling, the file is
\* at most the ceiling long and holds exactly the last `ceiling` bytes it had.
C1_RotationKeepsTail ==
    (/\ last.op = "restrict_log_size"
     /\ last.pre_log # ABSENT
     /\ Len(last.pre_log) > MAX_LOG_FILE_SIZE)
    => /\ Len(log_file) <= MAX_LOG_FILE_SIZE
       /\ log_file = SubSeq(last.pre_log, Len(last.pre_log) - MAX_LOG_FILE_SIZE + 1,
                            Len(last.pre_log))

\* C2: restrict_log_size on an existing log file of at most the ceiling changes
\* nothing: the content and size are what they were, and it returns normally,
\* each time it is applied.
C2_SmallLogUnchanged ==
    (/\ last.op = "restrict_log_size"
     /\ last.pre_log # ABSENT
     /\ Len(last.pre_log) <= MAX_LOG_FILE_SIZE)
    => /\ log_file = last.pre_log
       /\ exc = "none"
       /\ handles = last.pre_handles

C2_Witness ==
    /\ last.op = "restrict_log_size"
    /\ last.pre_log # ABSENT
    /\ Len(last.pre_log) = MAX_LOG_FILE_SIZE
    /\ log_file = last.pre_log

\* C3: shutdown_log runs the dump (it writes the last session to the console, or
\* fails looking for the mark) exactly when the exit code is neither 0 nor -2,
\* and dump_logs echoes the captured lines to the console exactly when the exit
\* code is neither 0 nor -2.
C3_DumpIffUnexpected ==
    /\ last.op = "shutdown_log"
       => ((console # <<>> \/ exc # "none") <=> ~Expected(last.ret_code))
    /\ last.op = "dump_logs"
       => console = last.pre_console
                    \o (IF Expected(last.ret_code) THEN <<>>
                        ELSE last.stdout_lines \o last.stderr_lines)

\* a run whose child exited with 137 and had its output echoed, then a
\* shutdown_log with -2 that closed the handle without a dump
C3_Witness ==
    /\ last.op = "shutdown_log"
    /\ last.ret_code = 0 - 2
    /\ console = <<>>
    /\ handles = last.pre_handles - 1
    /\ runs > 0
    /\ projector_log # <<>>

\* C4: dump_logs appends the captured stdout lines and then the captured stderr
\* lines to the log file for every exit code, and the console gets those lines
\* only when the exit code is neither 0 nor -2.
C4_LoggedAlwaysEchoedIfUnexpected ==
    last.op = "dump_logs"
    => /\ projector_log = last.pre_plog \o last.stdout_lines \o last.stderr_lines
       /\ Expected(last.ret_code) => console = last.pre_console
       /\ console # last.pre_console => ~Expected(last.ret_code)

C4_Witness ==
    /\ last.op = "dump_logs"
    /\ last.ret_code = 0
    /\ last.stdout_lines # <<>>
    /\ last.stderr_lines # <<>>
    /\ projector_log = last.stdout_lines \o last.stderr_lines
    /\ console = last.pre_console

\* C5: every completed do_run_config run leaves one more session-start line in
\* the configuration's log file than there was before the run.
C5_RunAppendsSessionLine ==
    last.op = "dump_logs"
    => /\ log_file # ABSENT
       /\ MarkCount(log_file) = MarkCount(last.pre_log) + 1

\* C6: on a log that contains the mark, dump_last_log_session writes the part of
\* the log that starts at the last mark and runs to the end of the file: a suffix
\* of the log that starts with the mark and holds no other mark.
C6_DumpFromLastMark ==
    (/\ last.op = "dump_last_log_session"
     /\ MarkCount(log_file) > 0)
    => /\ exc = "none"
       /\ \E p \in 0..(Len(log_file) - 1) : console = SliceFrom(log_file, p)
       /\ Occurrences(console, START_SESSION_MARK) = {0}

C6_Witness ==
    /\ last.op = "dump_last_log_session"
    /\ MarkCount(log_file) >= 2
    /\ Occurrences(console, START_SESSION_MARK) = {0}
    /\ Len(console) < Len(log_file)

\* C7: shutdown_log closes the log handle exactly once, whatever the exit code
\* and the log content.
C7_HandleClosedOnce ==
    last.op = "shutdown_log" => handles = last.pre_handles - 1

\* C8: on a log without the mark, dump_last_log_session and a shutdown_log that
\* dumps write nothing and return without raising.
C8_NoMarkNothingToDump ==
    (/\ last.op \in {"dump_last_log_session", "shutdown_log"}
     /\ MarkCount(log_file) = 0)
    => /\ exc = "none"
       /\ console = <<>>

NoTokens == ~truthy(url_in.password)

HasLoopback == \E i \in 1..Len(url_in.addresses) : url_in.addresses[i] = "127.0.0.1"

SpecExample ==
    /\ url_out.called
    /\ url_in.addresses = <<"127.0.0.1", "10.0.0.5">>
    /\ url_in.port = 9999
    /\ ~url_in.secure
    /\ NoTokens

\* C9 as stated: the two addresses give two URLs, the loopback address being
\* listed as localhost only, so there is one URL per resolved address.
C9_LoopbackListedOnce ==
    /\ SpecExample
       => url_out.urls = <<"http://localhost:9999/index.html",
                           "http://10.0.0.5:9999/index.html">>
    /\ (url_out.called /\ HasLoopback /\ NoTokens)
       => Len(url_out.urls) = Len(url_in.addresses)

\* C9 amended: the two addresses give three URLs, localhost first and then both
\* resolved addresses, 127.0.0.1 included; with the loopback address resolved and
\* no tokens there is one URL more than there are resolved addresses.
C9_LoopbackListedTwice ==
    /\ SpecExample
       => url_out.urls = <<"http://localhost:9999/index.html",
                           "http://127.0.0.1:9999/index.html",
                           "http://10.0.0.5:9999/index.html">>
    /\ (url_out.called /\ HasLoopback /\ NoTokens)
       => Len(url_out.urls) = Len(url_in.addresses) + 1

C9_Witness ==
    /\ SpecExample
    /\ url_out.exc = "none"
    /\ Len(url_out.urls) = 3

\* the URL the specification gives an address in token group g (0: the primary
\* password's group or the plain list, 1: the read-only password's group)
C10_Url(address, g) ==
    (IF url_in.secure THEN "https" ELSE "http") \o "://" \o address \o ":"
    \o (IF url_in.port = 9999 THEN "9999" ELSE "8443") \o "/index.html"
    \o (IF g = 1 THEN "?token=" \o url_in.ro_password
        ELSE IF truthy(url_in.password) THEN "?token=" \o url_in.password
        ELSE "")

\* C10: when 127.0.0.1 is among the resolved addresses and get_access_urls
\* returns, the result is one or two token groups, each the localhost URL
\* followed by the URLs of the resolved addresses in the resolved order.
C10_LocalhostFirst ==
    (url_out.called /\ url_out.exc = "none" /\ HasLoopback)
    => LET n == Len(url_in.addresses) + 1
           groups == Len(url_out.urls) \div n
       IN  /\ groups \in {1, 2}
           /\ Len(url_out.urls) = groups * n
           /\ \A g \in 0..(groups - 1) :
                /\ url_out.urls[g * n + 1] = C10_Url("localhost", g)
                /\ \A i \in 1..Len(url_in.addresses) :
                     url_out.urls[g * n + 1 + i] = C10_Url(url_in.addresses[i], g)

C10_Witness ==
    /\ url_out.called
    /\ url_out.exc = "none"
    /\ url_in.addresses = <<"10.0.0.5", "127.0.0.1">>
    /\ url_in.secure
    /\ url_in.port = 8443
    /\ url_in.password = "abc"
    /\ url_in.ro_password = "xyz"
    /\ Len(url_out.urls) = 6
    /\ url_out.urls[1] = "https://localhost:8443/index.html?token=abc"
    /\ url_out.urls[4] = "https://localhost:8443/index.html?token=xyz"

\* the base URLs of the call: one per address of the list after localhost is
\* put in front of it
BaseAddresses ==
    IF HasLoopback THEN <<"localhost">> \o url_in.addresses ELSE url_in.addresses

\* C11: with a primary token and a read-only token different from it,
\* get_access_urls returns 2n URLs for n base URLs: the base URLs with
\* ?token=<primary>, then the same base URLs in the same order with
\* ?token=<read-only>.
C11_TwoTokenGroups ==
    (/\ url_out.called
     /\ truthy(url_in.password)
     /\ url_in.ro_password # NONE
     /\ url_in.ro_password # url_in.password)
    => LET n == Len(BaseAddresses)
       IN  /\ url_out.exc = "none"
           /\ Len(url_out.urls) = 2 * n
           /\ \A i \in 1..n :
                /\ url_out.urls[i] = C10_Url(BaseAddresses[i], 0)
                /\ url_out.urls[n + i] = C10_Url(BaseAddresses[i], 1)

C11_Witness ==
    /\ url_out.called
    /\ url_in.addresses = <<"127.0.0.1", "10.0.0.5">>
    /\ url_in.port = 9999
    /\ ~url_in.secure
    /\ url_in.password = "abc"
    /\ url_in.ro_password = "xyz"
    /\ Len(url_out.urls) = 6
    /\ url_out.urls[3] = "http://10.0.0.5:9999/index.html?token=abc"
    /\ url_out.urls[6] = "http://10.0.0.5:9999/index.html?token=xyz"

\* C12: with a primary password and a read-only password that is absent or equal
\* to it, get_access_urls returns the n primary-token URLs and no others and does
\* not raise; without a primary password it returns the base URLs as they are.
C12_OneTokenGroup ==
    url_out.called
    => LET n == Len(BaseAddresses)
       IN  IF truthy(url_in.password)
           THEN url_in.ro_password \in {NONE, url_in.password}
                => /\ url_out.exc = "none"
                   /\ Len(url_out.urls) = n
                   /\ \A i \in 1..n : url_out.urls[i] = C10_Url(BaseAddresses[i], 0)
           ELSE /\ url_out.exc = "none"
                /\ Len(url_out.urls) = n
                /\ \A i \in 1..n : url_out.urls[i] = C10_Url(BaseAddresses[i], 0)

\* C13: when the launch script is no file, do_run_config reports it and exits
\* the process with code 1, and that invocation has started no child, installed
\* no SIGINT handler and written no log file.
C13_MissingScriptExitsFirst ==
    pc = "exited"
    => /\ last.op = "do_run_config"
       /\ session.sys_exit = 1
       /\ console = <<"Configuration name", "Cannot find file", "To fix, try">>
       /\ child.status = "none"
       /\ handler = last.pre_handler
       /\ log_file = last.pre_log
       /\ handles = last.pre_handles
       /\ projector_log = last.pre_plog

C13_Witness ==
    /\ pc = "exited"
    /\ session.sys_exit = 1
    /\ ~handler
    /\ child = NoChild
    /\ projector_log = <<>>

\* C14: with no resolved address, do_run_config does not fail, whatever
\* run_browser and is_wsl() are (the configurations on which get_access_urls
\* itself raises set aside).
C14_EmptyAddressesRecovered ==
    (/\ pc \in {"spawned", "waiting", "waited", "crashed"}
     /\ session.addresses = <<>>
     /\ ~(truthy(session.password) /\ session.ro_password = NONE))
    => /\ pc # "crashed"
       /\ exc = "none"

CtrlCMessage == "\nCtrl-C is pressed, exiting..."

\* C15: a SIGINT during the session prints one message and does nothing else: the
\* child, the position of the supervisor and the log files are as they were;
\* wait returns only when the child has exited, and the log is written only
\* after that.
C15_InterruptOnlyPrints ==
    /\ [][session.interrupts' > session.interrupts
          => /\ console' = Append(console, CtrlCMessage)
             /\ session.interrupts' = session.interrupts + 1
             /\ child' = child
             /\ pc' = pc
             /\ projector_log' = projector_log
             /\ log_file' = log_file]_vars
    /\ [](pc = "waited" => child.status = "exited")
    /\ [](pc \in {"spawned", "waiting"} => projector_log = last.pre_plog)

C15_Witness ==
    /\ pc = "waiting"
    /\ child.status = "running"
    /\ session.interrupts > 0
    /\ console[Len(console)] = CtrlCMessage
    /\ projector_log = <<>>

\* C16: whatever code the child exits with, do_run_config returns normally after
\* dump_logs; the only exit of the process it performs is the one with code 1
\* for a missing launch script.
C16_ChildFailureNotFatal ==
    /\ last.op = "dump_logs"
       => /\ pc = "idle"
          /\ exc = "none"
          /\ session.sys_exit = 0
    /\ pc = "exited"
       => /\ session.sys_exit = 1
          /\ last.op = "do_run_config"

C16_Witness ==
    /\ last.op = "dump_logs"
    /\ last.ret_code = 137
    /\ pc = "idle"
    /\ exc = "none"
    /\ runs > 0

\* C17: while do_run_config waits, the session can always move on: the child can
\* write or exit, or wait can return.  (In a state where none of them can, the
\* run never reaches dump_logs, under any fairness.)
C17_WaitNeverStuck ==
    pc = "waiting"
    => ENABLED (child_write_stdout \/ child_write_stderr \/ child_exit \/ wait)

\* C18: init_log returns an open handle from every state of the log, the absent
\* file included, and the log then ends with the new session-start line, which
\* is its only line when there was no file.
C18_InitLogSucceeds ==
    last.op = "init_log"
    => /\ exc = "none"
       /\ log_file # ABSENT
       /\ handles = last.pre_handles + 1
       /\ Len(log_file) >= Len(session_line)
       /\ SliceFrom(log_file, Len(log_file) - Len(session_line)) = session_line
       /\ last.pre_log = ABSENT => log_file = session_line

====
